---- MODULE Spec2Model ----
\* Model of the shipping-protection backend (routes/insurance.js,
\* services/bigcommerce.js, config/config.js): the insurance pricing rule and
\* the reconciliation of the insurance line item of a BigCommerce cart.
\*
\* Numbers: every JavaScript number is kept as an integer count of hundredths
\* (1 is 100, 3.75 is 375, $200 is 20000); NaN is a value of its own.
\* Strings that are parsed are sequences of one-character strings.
EXTENDS Integers, Sequences, FiniteSets, TLC

\* ---------------------------------------------------------------- bounds
\* request slots that can be in flight at the same time
NumSlots == 2
\* total number of requests started in one behaviour
MaxCalls == 2
\* largest whole-dollar subtotal fed to the pricing rule
MaxDollars == 320
\* calls that the store fails in one behaviour although it could serve them
MaxFailures == 1

\* ------------------------------------------------------- JavaScript values
Undef == [t |-> "undefined", n |-> 0, s |-> <<>>]
Null == [t |-> "null", n |-> 0, s |-> <<>>]
NaNV == [t |-> "nan", n |-> 0, s |-> <<>>]
NumV(n) == [t |-> "number", n |-> n, s |-> <<>>]
StrV(s) == [t |-> "string", n |-> 0, s |-> s]

IsNum(v) == v.t = "number"
IsNaN(v) == v.t # "number"

\* JavaScript truthiness (the operand of ! and ||)
Truthy(v) ==
  CASE v.t = "number" -> v.n # 0
    [] v.t = "string" -> Len(v.s) > 0
    [] OTHER -> FALSE

\* a || b
Or(a, b) == IF Truthy(a) THEN a ELSE b

\* property read on an object kept as a function from keys: obj.key
Get(obj, key) == IF key \in DOMAIN obj THEN obj[key] ELSE Undef

Digits == {"0", "1", "2", "3", "4", "5", "6", "7", "8", "9"}
DigitVal ==
  "0" :> 0 @@ "1" :> 1 @@ "2" :> 2 @@ "3" :> 3 @@ "4" :> 4 @@
  "5" :> 5 @@ "6" :> 6 @@ "7" :> 7 @@ "8" :> 8 @@ "9" :> 9

RECURSIVE SkipWs(_)
SkipWs(s) == IF s # <<>> /\ Head(s) = " " THEN SkipWs(Tail(s)) ELSE s

\* the longest prefix of digits of s: its value and its length
RECURSIVE DigitRun(_, _, _)
DigitRun(s, acc, len) ==
  IF s # <<>> /\ Head(s) \in Digits
  THEN DigitRun(Tail(s), acc * 10 + DigitVal[Head(s)], len + 1)
  ELSE [val |-> acc, len |-> len, rest |-> s]

\* sign prefix of a numeric literal
SignOf(s) == IF s # <<>> /\ Head(s) = "-" THEN -1 ELSE 1
DropSign(s) == IF s # <<>> /\ Head(s) \in {"-", "+"} THEN Tail(s) ELSE s

\* parseInt of a string: leading blanks, a sign, then the longest run of
\* decimal digits; anything after it is ignored; no digit gives NaN.
ParseIntStr(s) ==
  LET t == SkipWs(s)
      r == DigitRun(DropSign(t), 0, 0)
  IN IF r.len = 0 THEN NaNV ELSE NumV(SignOf(t) * r.val * 100)

\* the first two fraction digits as hundredths (the strings of the model
\* carry at most two)
FracHundredths(r) ==
  IF r.len = 0 THEN 0
  ELSE IF r.len = 1 THEN r.val * 10
  ELSE IF r.len = 2 THEN r.val
  ELSE r.val \div (10 ^ (r.len - 2))

\* parseFloat of a string: leading blanks, a sign, digits, an optional
\* point and digits; anything after it is ignored; no digit gives NaN.
ParseFloatStr(s) ==
  LET t == SkipWs(s)
      ip == DigitRun(DropSign(t), 0, 0)
      hasPt == ip.rest # <<>> /\ Head(ip.rest) = "."
      fp == IF hasPt THEN DigitRun(Tail(ip.rest), 0, 0)
            ELSE [val |-> 0, len |-> 0, rest |-> ip.rest]
  IN IF ip.len = 0 /\ fp.len = 0 THEN NaNV
     ELSE NumV(SignOf(t) * (ip.val * 100 + FracHundredths(fp)))

\* truncation toward zero of a count of hundredths
Trunc(n) == IF n >= 0 THEN (n \div 100) * 100 ELSE -(((-n) \div 100) * 100)

\* parseInt(v): the argument is converted to a string first, so a number is
\* truncated and undefined, null and NaN give NaN.
parseInt(v) ==
  CASE v.t = "string" -> ParseIntStr(v.s)
    [] v.t = "number" -> NumV(Trunc(v.n))
    [] OTHER -> NaNV

\* parseFloat(v): a number prints and parses back to itself.
parseFloat(v) ==
  CASE v.t = "string" -> ParseFloatStr(v.s)
    [] v.t = "number" -> v
    [] OTHER -> NaNV

\* ------------------------------------------------------------ config.js
insuranceProductId == 6817
\* percentages in tenths of a percent: 1.5% is 15, 2% is 20
percentageOver200 == 15
percentageUnder200 == 20
\* the literal 200 of calculateInsuranceAmount, in hundredths
Threshold == 20000

\* ------------------------------------------------------------- pricing
\* An unrounded amount is the fraction num / 1000 of a hundredth.
NaNAmount == [t |-> "nan", num |-> 0]
Amount(num) == [t |-> "number", num |-> num]

\* calculateInsuranceAmount(cartTotal): NaN > 200 is false and NaN
\* propagates through the product.
calculateInsuranceAmountGE(cartTotal) ==
  IF IsNaN(cartTotal) THEN NaNAmount
  ELSE LET percentage == IF cartTotal.n >= Threshold
                         THEN percentageOver200 ELSE percentageUnder200
       IN Amount(cartTotal.n * percentage)

calculateInsuranceAmount(cartTotal) ==
  IF IsNaN(cartTotal) THEN NaNAmount
  ELSE LET percentage == IF cartTotal.n > Threshold
                         THEN percentageOver200 ELSE percentageUnder200
       IN Amount(cartTotal.n * percentage)

\* The values parseFloat(x.toFixed(2)) can take for a non-negative
\* num / 1000: the nearest hundredth. The product and the division are
\* binary floating point, so a value that is mathematically half way between
\* two hundredths may land on either side of it: both are possible there.
RoundHundredths(num) ==
  LET q == num \div 1000
      rem == num % 1000
  IN IF 2 * rem < 1000 THEN {q}
     ELSE IF 2 * rem > 1000 THEN {q + 1}
     ELSE {q, q + 1}

\* parseFloat(amount.toFixed(2)): toFixed formats the magnitude and puts the
\* sign in front; NaN prints as "NaN" and parses back to NaN.
FormattedPrices(amount) ==
  IF amount.t = "nan" THEN {NaNV}
  ELSE IF amount.num >= 0 THEN {NumV(q) : q \in RoundHundredths(amount.num)}
  ELSE {NumV(-q) : q \in RoundHundredths(-amount.num)}

\* ------------------------------------------------- cart representations
\* A cart object is a function from keys; an item is a function from keys to
\* JavaScript values (its id is an integer of the store).
Has(obj, key) == key \in DOMAIN obj

\* cartData.data?.line_items || cartData.line_items, then the named
\* collection of it, or [] when anything on the way is missing
Collection(cartData, name) ==
  LET viaData == Has(cartData, "data") /\ Has(cartData.data, "line_items")
      direct == Has(cartData, "line_items")
      lineItems == IF viaData THEN cartData.data.line_items
                   ELSE IF direct THEN cartData.line_items ELSE <<>>
  IN IF (viaData \/ direct) /\ Has(lineItems, name)
     THEN lineItems[name] ELSE <<>>

\* item.product_id || item.productId
ProductIdOf(item) == Or(Get(item, "product_id"), Get(item, "productId"))

IsInsurance(item) == ProductIdOf(item) = NumV(insuranceProductId * 100)

\* (item.list_price || item.listPrice || 0) * (item.quantity || 0)
LineTotal(item) ==
  LET price == Or(Or(Get(item, "list_price"), Get(item, "listPrice")), NumV(0))
      qty == Or(Get(item, "quantity"), NumV(0))
  IN (price.n * qty.n) \div 100

RECURSIVE SumPhysical(_)
SumPhysical(items) ==
  IF items = <<>> THEN 0
  ELSE (IF IsInsurance(Head(items)) THEN 0 ELSE LineTotal(Head(items)))
       + SumPhysical(Tail(items))

\* getCartPrice with the insurance product counted like every other item
RECURSIVE SumEvery(_)
SumEvery(items) ==
  IF items = <<>> THEN 0 ELSE LineTotal(Head(items)) + SumEvery(Tail(items))

getCartPriceAll(cartData) == NumV(SumEvery(Collection(cartData, "physical_items")))

\* getCartPrice(cartData)
getCartPrice(cartData) == NumV(SumPhysical(Collection(cartData, "physical_items")))

\* Array.prototype.find: the first element that matches, or undefined
RECURSIVE FindFirst(_)
FindFirst(items) ==
  IF items = <<>> THEN Undef
  ELSE IF IsInsurance(Head(items)) THEN Head(items)
  ELSE FindFirst(Tail(items))

\* findInsuranceProduct returning the first digital item, whatever its product
findInsuranceProductAny(cartData) ==
  LET items == Collection(cartData, "digital_items")
  IN IF items = <<>> THEN Undef ELSE Head(items)

\* findInsuranceProduct(cartData)
findInsuranceProduct(cartData) == FindFirst(Collection(cartData, "digital_items"))

\* ------------------------------------------------------------ the state
VARIABLES
  cart,     \* the cart "c1" of the external store: its line_items
  pc,       \* per request slot: where its handler stands
  op,       \* per request slot: the endpoint that was called
  body,     \* per request slot: req.body (req.query for /calculate)
  loc,      \* per request slot: the handler's local variables
  ext,      \* per request slot: the calls it has sent to the store, in order
  resp,     \* per request slot: the response sent, status and JSON body
  hist,     \* per request slot: when it ran and what the cart was around it
  nCalls,   \* requests started so far
  nFail,    \* calls the store has failed that it could have served
  lastDone  \* the request that completed last, if it ran alone (else NoSummary)

vars == <<cart, pc, op, body, loc, ext, resp, hist, nCalls, nFail, lastDone>>

Slots == 1..NumSlots

Str(chars) == StrV(chars)
CartC1 == Str(<<"c", "1">>)
CartZZ == Str(<<"z", "z">>)

\* line items as the store returns them
Item(id, productId, price) ==
  [id |-> id, product_id |-> NumV(productId * 100),
   list_price |-> price, quantity |-> NumV(100)]

Insurance(id, price) == Item(id, insuranceProductId, NumV(price))

PhysicalGoods == <<Item(1, 111, NumV(15000))>>

\* carts the shopper can hold when a behaviour starts: no insurance item,
\* one behind another digital product, and two of them
InitDigital ==
  { <<>>,
    <<Item(2, 222, NumV(500)), Insurance(3, 300)>>,
    <<Insurance(2, 300), Insurance(3, 450)>> }

\* number of insurance line items in a sequence of items
RECURSIVE CountInsurance(_)
CountInsurance(items) ==
  IF items = <<>> THEN 0
  ELSE (IF IsInsurance(Head(items)) THEN 1 ELSE 0) + CountInsurance(Tail(items))

InsuranceCount(c) == CountInsurance(c.digital_items) + CountInsurance(c.physical_items)

NoLoc == [protectionValue |-> NaNV, baseAmount |-> NaNV,
          formattedPrice |-> NaNV, existing |-> 0]
NoResp == [status |-> 0, body |-> <<>>]
\* what is remembered of a completed request
NoSummary == [seq |-> 0, op |-> "none", protectionValue |-> NaNV,
              baseAmount |-> NaNV, success |-> FALSE]
\* no cart remembered
NoCart == [physical_items |-> <<>>, digital_items |-> <<>>]
NoHist == [seq |-> 0, prev |-> NoSummary, overlap |-> {},
           before |-> <<>>, after |-> <<>>, cart0 |-> NoCart]
NoBody == [cartId |-> Undef, protection |-> Undef,
           cartTotal |-> Undef, cartData |-> Undef]

Init ==
  /\ cart \in {[physical_items |-> PhysicalGoods, digital_items |-> d] :
               d \in InitDigital}
  /\ pc = [r \in Slots |-> "idle"]
  /\ op = [r \in Slots |-> "none"]
  /\ body = [r \in Slots |-> NoBody]
  /\ loc = [r \in Slots |-> NoLoc]
  /\ ext = [r \in Slots |-> <<>>]
  /\ resp = [r \in Slots |-> NoResp]
  /\ hist = [r \in Slots |-> NoHist]
  /\ nCalls = 0
  /\ nFail = 0
  /\ lastDone = NoSummary

\* ------------------------------------------------- the external store
\* The store holds one cart, "c1"; any other cart id is unknown to it.
StoreHasCart(cartId) == cartId = CartC1

\* body of a successful GET /carts/{id}: the data envelope, snake_case
CartResponse(c) == [data |-> [line_items |-> c]]

HasItem(c, id) ==
  \/ \E i \in DOMAIN c.physical_items : c.physical_items[i].id = id
  \/ \E i \in DOMAIN c.digital_items : c.digital_items[i].id = id

WithoutItem(items, id) == SelectSeq(items, LAMBDA it : it.id # id)

\* effect of a successful DELETE /carts/{id}/items/{itemId}
StoreRemove(c, id) ==
  [physical_items |-> WithoutItem(c.physical_items, id),
   digital_items |-> WithoutItem(c.digital_items, id)]

\* effect of a successful POST /carts/{id}/items with
\* {lineItems: [{quantity, productId, listPrice}]}: a new line item; NaN is
\* sent as JSON null, which is no price override
StoreAdd(c, id, productId, quantity, listPrice) ==
  [c EXCEPT !.digital_items =
     Append(@, [id |-> id, product_id |-> NumV(productId * 100),
                list_price |-> IF IsNum(listPrice) THEN listPrice ELSE Null,
                quantity |-> NumV(quantity * 100)])]

\* how a call to the store can fail: with an error that has a message (404
\* stands for the statuses and for the errors without a response, which
\* differ in the text of the message only) and with one that has none
FailKinds == {"404", "nomessage"}

\* message of the error thrown by getCart for a failure
GetCartError(kind) ==
  CASE kind = "404" -> "Cart not found"
    [] OTHER -> ""

\* message of the error thrown by addCartItem for a failure
AddCartItemError(kind) ==
  CASE kind = "404" -> "Cart or product not found (404)"
    [] OTHER -> ""

\* removeCartItem rethrows the error of the HTTP client unchanged
RemoveCartItemError(kind) ==
  CASE kind = "404" -> "Request failed with status code 404"
    [] OTHER -> ""

\* a call fails: the store cannot serve it (the cart or the item is not
\* there), or it could and fails all the same, MaxFailures times at most
Fault(possible) ==
  /\ possible => nFail < MaxFailures
  /\ nFail' = IF possible THEN nFail + 1 ELSE nFail

\* message || fallback on strings
OrStr(message, fallback) == IF message # "" THEN message ELSE fallback

\* one entry of ext
Call(name, id, price, ok) == [call |-> name, id |-> id, price |-> price, ok |-> ok]

\* ------------------------------------------------------ request history
InFlight(q) == pc[q] \notin {"idle", "done"}

\* the id the store gives to the line item request r adds: one that no item
\* has had before (a request adds once at most)
NewId(r) == 10 + hist[r].seq

\* the prices of the insurance items of a cart, in the order of the cart
InsuranceLines(c) ==
  LET priceOf(items) ==
        [i \in DOMAIN items |-> items[i].list_price]
  IN priceOf(SelectSeq(c.physical_items \o c.digital_items, IsInsurance))

\* a request starts in slot r: it gets the next number, remembers the last
\* completed request and the cart (cart0, and its insurance lines), and it overlaps every request in flight
StartHist(r) ==
  [q \in Slots |->
     IF q = r
     THEN [seq |-> nCalls + 1,
           prev |-> IF \E o \in Slots \ {r} : InFlight(o) THEN NoSummary ELSE lastDone,
           overlap |-> {hist[o].seq : o \in {o \in Slots \ {r} : InFlight(o)}},
           before |-> InsuranceLines(cart), after |-> InsuranceLines(cart),
           cart0 |-> cart]
     ELSE IF InFlight(q)
     THEN [hist[q] EXCEPT !.overlap = @ \cup {nCalls + 1}, !.prev = NoSummary]
     ELSE NoHist]

\* what a slot keeps of a request that has been answered is dropped when the
\* next request arrives
Cleared(f, r, mine, blank) ==
  [q \in Slots |-> IF q = r THEN mine ELSE IF InFlight(q) THEN f[q] ELSE blank]

\* a request takes the first slot that is not in flight
CanStart(r) ==
  /\ ~InFlight(r)
  /\ \A q \in Slots : q < r => InFlight(q)
  /\ nCalls < MaxCalls

Summary(seq, o, l, success, solo) ==
  IF solo
  THEN [seq |-> seq, op |-> o, protectionValue |-> l.protectionValue,
        baseAmount |-> l.baseAmount, success |-> success]
  ELSE NoSummary

\* res.status(status).json(json) at the start of a handler
Reject(r, status, json) ==
  /\ pc' = Cleared(pc, r, "done", "idle")
  /\ resp' = Cleared(resp, r, [status |-> status, body |-> json], NoResp)
  /\ loc' = Cleared(loc, r, NoLoc, NoLoc)
  /\ lastDone' = Summary(nCalls + 1, "rejected", NoLoc, FALSE, StartHist(r)[r].overlap = {})

\* res.status(status).json(json) after the last call to the store, the
\* cart then being cartNow
Finish(r, status, json, cartNow) ==
  /\ pc' = [pc EXCEPT ![r] = "done"]
  /\ resp' = [resp EXCEPT ![r] = [status |-> status, body |-> json]]
  /\ hist' = [hist EXCEPT ![r].after = InsuranceLines(cartNow)]
  /\ lastDone' = Summary(hist[r].seq, op[r], loc[r], status = 200, hist[r].overlap = {})

\* ----------------------------------------------- POST /api/insurance/add
\* AddSuccess with the subtotal returned as the amount
AddSuccessSubtotal(r) ==
  [success |-> 1, insuranceAmount |-> loc[r].baseAmount,
   productId |-> insuranceProductId,
   action |-> IF loc[r].protectionValue = NumV(100) THEN "add" ELSE "remove",
   cartId |-> body[r].cartId]

\* the JSON of a successful response of /add
AddSuccess(r) ==
  [success |-> 1, insuranceAmount |-> loc[r].formattedPrice,
   productId |-> insuranceProductId,
   action |-> IF loc[r].protectionValue = NumV(100) THEN "add" ELSE "remove",
   cartId |-> body[r].cartId]

ErrorBody(message) == [success |-> 0, error |-> message]

\* the handler up to its first await: validation and the amount
AddStart(r, b) ==
  LET protectionValue == parseInt(b.protection)
      hasTotal == b.cartTotal # Undef /\ b.cartTotal # Null
      hasData == b.cartData # Undef
      baseAmount == IF hasTotal THEN parseFloat(b.cartTotal)
                    ELSE getCartPrice(b.cartData)
      insuranceAmount == IF protectionValue = NumV(100)
                         THEN calculateInsuranceAmount(baseAmount)
                         ELSE Amount(0)
  IN
  /\ CanStart(r)
  /\ nCalls' = nCalls + 1
  /\ op' = Cleared(op, r, "add", "none")
  /\ body' = Cleared(body, r, b, NoBody)
  /\ ext' = Cleared(ext, r, <<>>, <<>>)
  /\ hist' = StartHist(r)
  /\ UNCHANGED <<cart, nFail>>
  /\ IF ~Truthy(b.cartId)
     THEN Reject(r, 400, ErrorBody("Cart ID is required"))
     ELSE IF protectionValue # NumV(0) /\ protectionValue # NumV(100)
     THEN Reject(r, 400, ErrorBody("Protection must be 0 or 1"))
     ELSE IF ~hasTotal /\ ~hasData
     THEN Reject(r, 400, ErrorBody("Cart total or cart data is required"))
     ELSE \E formattedPrice \in FormattedPrices(insuranceAmount) :
            /\ pc' = Cleared(pc, r, "fetch", "idle")
            /\ loc' = Cleared(loc, r,
                 [protectionValue |-> protectionValue,
                  baseAmount |-> baseAmount,
                  formattedPrice |-> formattedPrice, existing |-> 0], NoLoc)
            /\ resp' = Cleared(resp, r, NoResp, NoResp)
            /\ UNCHANGED lastDone

\* AddAfterTry with the add sent whatever the protection is
AddAfterTryAlways(r, cartNow) ==
  /\ pc' = [pc EXCEPT ![r] = "add"]
  /\ UNCHANGED <<resp, hist, lastDone>>

\* what follows the try block around getCart and removeCartItem, the cart
\* then being cartNow: the add when protection is 1, else the response
AddAfterTry(r, cartNow) ==
  IF loc[r].protectionValue = NumV(100)
  THEN /\ pc' = [pc EXCEPT ![r] = "add"]
       /\ UNCHANGED <<resp, hist, lastDone>>
  ELSE Finish(r, 200, AddSuccess(r), cartNow)

\* AddFetch with an existing item that already has the new price kept as it is
AddFetchSkipSame(r) ==
  /\ pc[r] = "fetch" /\ op[r] = "add"
  /\ UNCHANGED <<cart, op, body, nCalls>>
  /\ IF body[r].cartId.t # "string"
     THEN /\ UNCHANGED <<ext, loc, nFail>>
          /\ AddAfterTry(r, cart)
     ELSE
       \/ /\ StoreHasCart(body[r].cartId)
          /\ ext' = [ext EXCEPT ![r] = Append(@, Call("getCart", 0, Undef, TRUE))]
          /\ UNCHANGED nFail
          /\ LET existingInsurance == findInsuranceProduct(CartResponse(cart))
             IN IF existingInsurance = Undef
                THEN /\ UNCHANGED loc
                     /\ AddAfterTry(r, cart)
                ELSE IF existingInsurance.list_price = loc[r].formattedPrice
                THEN /\ UNCHANGED loc
                     /\ Finish(r, 200, AddSuccess(r), cart)
                ELSE /\ pc' = [pc EXCEPT ![r] = "remove"]
                     /\ loc' = [loc EXCEPT ![r].existing = existingInsurance.id]
                     /\ UNCHANGED <<resp, hist, lastDone>>
       \/ /\ ext' = [ext EXCEPT ![r] = Append(@, Call("getCart", 0, Undef, FALSE))]
          /\ Fault(StoreHasCart(body[r].cartId))
          /\ UNCHANGED loc
          /\ AddAfterTry(r, cart)

\* AddFetch with a failure of getCart ending the request
AddFetchFatal(r) ==
  /\ pc[r] = "fetch" /\ op[r] = "add"
  /\ UNCHANGED <<cart, op, body, nCalls>>
  /\ IF body[r].cartId.t # "string"
     THEN /\ UNCHANGED <<ext, loc, nFail>>
          /\ AddAfterTry(r, cart)
     ELSE
       \/ /\ StoreHasCart(body[r].cartId)
          /\ ext' = [ext EXCEPT ![r] = Append(@, Call("getCart", 0, Undef, TRUE))]
          /\ UNCHANGED nFail
          /\ LET existingInsurance == findInsuranceProduct(CartResponse(cart))
             IN IF existingInsurance # Undef
                THEN /\ pc' = [pc EXCEPT ![r] = "remove"]
                     /\ loc' = [loc EXCEPT ![r].existing = existingInsurance.id]
                     /\ UNCHANGED <<resp, hist, lastDone>>
                ELSE /\ UNCHANGED loc
                     /\ AddAfterTry(r, cart)
       \/ \E kind \in FailKinds :
            /\ ext' = [ext EXCEPT ![r] = Append(@, Call("getCart", 0, Undef, FALSE))]
            /\ Fault(StoreHasCart(body[r].cartId))
            /\ UNCHANGED loc
            /\ Finish(r, 500, ErrorBody(OrStr(GetCartError(kind),
                                              "Internal server error")), cart)

\* getCart answers (or throws), then findInsuranceProduct
AddFetch(r) ==
  /\ pc[r] = "fetch" /\ op[r] = "add"
  /\ UNCHANGED <<cart, op, body, nCalls>>
  /\ IF body[r].cartId.t # "string"
     THEN \* getCart throws 'Invalid cart ID format' before any request
          /\ UNCHANGED <<ext, loc, nFail>>
          /\ AddAfterTry(r, cart)
     ELSE
       \/ /\ StoreHasCart(body[r].cartId)
          /\ ext' = [ext EXCEPT ![r] = Append(@, Call("getCart", 0, Undef, TRUE))]
          /\ UNCHANGED nFail
          /\ LET existingInsurance == findInsuranceProduct(CartResponse(cart))
             IN IF existingInsurance # Undef
                THEN /\ pc' = [pc EXCEPT ![r] = "remove"]
                     /\ loc' = [loc EXCEPT ![r].existing = existingInsurance.id]
                     /\ UNCHANGED <<resp, hist, lastDone>>
                ELSE /\ UNCHANGED loc
                     /\ AddAfterTry(r, cart)
       \/ /\ ext' = [ext EXCEPT ![r] = Append(@, Call("getCart", 0, Undef, FALSE))]
          /\ Fault(StoreHasCart(body[r].cartId))
          /\ UNCHANGED loc
          /\ AddAfterTry(r, cart)

\* AddRemove with a failure of removeCartItem ending the request
AddRemoveFatal(r) ==
  /\ pc[r] = "remove" /\ op[r] = "add"
  /\ UNCHANGED <<op, body, loc, nCalls>>
  /\ \/ /\ StoreHasCart(body[r].cartId)
        /\ HasItem(cart, loc[r].existing)
        /\ ext' = [ext EXCEPT ![r] =
                     Append(@, Call("remove", loc[r].existing, Undef, TRUE))]
        /\ UNCHANGED nFail
        /\ cart' = StoreRemove(cart, loc[r].existing)
        /\ AddAfterTry(r, StoreRemove(cart, loc[r].existing))
     \/ \E kind \in FailKinds :
          /\ ext' = [ext EXCEPT ![r] =
                       Append(@, Call("remove", loc[r].existing, Undef, FALSE))]
          /\ Fault(StoreHasCart(body[r].cartId) /\ HasItem(cart, loc[r].existing))
          /\ UNCHANGED cart
          /\ Finish(r, 500, ErrorBody(OrStr(RemoveCartItemError(kind),
                                            "Internal server error")), cart)

\* removeCartItem answers (or throws); the catch swallows the error
AddRemove(r) ==
  /\ pc[r] = "remove" /\ op[r] = "add"
  /\ UNCHANGED <<op, body, loc, nCalls>>
  /\ \/ /\ StoreHasCart(body[r].cartId)
        /\ HasItem(cart, loc[r].existing)
        /\ ext' = [ext EXCEPT ![r] =
                     Append(@, Call("remove", loc[r].existing, Undef, TRUE))]
        /\ UNCHANGED nFail
        /\ cart' = StoreRemove(cart, loc[r].existing)
        /\ AddAfterTry(r, StoreRemove(cart, loc[r].existing))
     \/ /\ ext' = [ext EXCEPT ![r] =
                     Append(@, Call("remove", loc[r].existing, Undef, FALSE))]
        /\ Fault(StoreHasCart(body[r].cartId) /\ HasItem(cart, loc[r].existing))
        /\ UNCHANGED cart
        /\ AddAfterTry(r, cart)

\* errorMessage of the outer catch of /add for an error with that message
\* (the errors thrown by the service carry no response)
AddErrorMessage(message) == OrStr(message, "Internal server error")

\* every insurance item taken out of a cart
WithoutInsurance(c) ==
  [c EXCEPT !.digital_items = SelectSeq(@, LAMBDA it : ~IsInsurance(it))]

\* AddAdd with an add that replaces the insurance items of the cart
AddAddReplace(r) ==
  /\ pc[r] = "add" /\ op[r] = "add"
  /\ UNCHANGED <<op, body, loc, nCalls>>
  /\ \/ /\ StoreHasCart(body[r].cartId)
        /\ ext' = [ext EXCEPT ![r] =
                     Append(@, Call("add", NewId(r), loc[r].formattedPrice, TRUE))]
        /\ UNCHANGED nFail
        /\ cart' = StoreAdd(WithoutInsurance(cart), NewId(r), insuranceProductId, 1,
                            loc[r].formattedPrice)
        /\ Finish(r, 200, AddSuccess(r),
                  StoreAdd(WithoutInsurance(cart), NewId(r), insuranceProductId, 1,
                           loc[r].formattedPrice))
     \/ \E kind \in FailKinds :
          /\ ext' = [ext EXCEPT ![r] =
                       Append(@, Call("add", 0, loc[r].formattedPrice, FALSE))]
          /\ Fault(StoreHasCart(body[r].cartId))
          /\ UNCHANGED cart
          /\ Finish(r, 500, ErrorBody(AddErrorMessage(AddCartItemError(kind))), cart)

\* AddAdd with a failure of addCartItem caught and logged like the others
AddAddSwallow(r) ==
  /\ pc[r] = "add" /\ op[r] = "add"
  /\ UNCHANGED <<op, body, loc, nCalls>>
  /\ \/ /\ StoreHasCart(body[r].cartId)
        /\ ext' = [ext EXCEPT ![r] =
                     Append(@, Call("add", NewId(r), loc[r].formattedPrice, TRUE))]
        /\ UNCHANGED nFail
        /\ cart' = StoreAdd(cart, NewId(r), insuranceProductId, 1, loc[r].formattedPrice)
        /\ Finish(r, 200, AddSuccess(r),
                  StoreAdd(cart, NewId(r), insuranceProductId, 1, loc[r].formattedPrice))
     \/ /\ ext' = [ext EXCEPT ![r] =
                     Append(@, Call("add", 0, loc[r].formattedPrice, FALSE))]
        /\ Fault(StoreHasCart(body[r].cartId))
        /\ UNCHANGED cart
        /\ Finish(r, 200, AddSuccess(r), cart)

\* AddAdd with the item added twice over (quantity 2)
AddAddDouble(r) ==
  /\ pc[r] = "add" /\ op[r] = "add"
  /\ UNCHANGED <<op, body, loc, nCalls>>
  /\ \/ /\ StoreHasCart(body[r].cartId)
        /\ ext' = [ext EXCEPT ![r] =
                     Append(@, Call("add", NewId(r), loc[r].formattedPrice, TRUE))]
        /\ UNCHANGED nFail
        /\ cart' = StoreAdd(cart, NewId(r), insuranceProductId, 2, loc[r].formattedPrice)
        /\ Finish(r, 200, AddSuccess(r),
                  StoreAdd(cart, NewId(r), insuranceProductId, 2, loc[r].formattedPrice))
     \/ \E kind \in FailKinds :
          /\ ext' = [ext EXCEPT ![r] =
                       Append(@, Call("add", 0, loc[r].formattedPrice, FALSE))]
          /\ Fault(StoreHasCart(body[r].cartId))
          /\ UNCHANGED cart
          /\ Finish(r, 500, ErrorBody(AddErrorMessage(AddCartItemError(kind))), cart)

\* AddAdd with a failed add sent once more
AddAddRetry(r) ==
  /\ pc[r] = "add" /\ op[r] = "add"
  /\ UNCHANGED <<op, body, loc, nCalls>>
  /\ \/ /\ StoreHasCart(body[r].cartId)
        /\ ext' = [ext EXCEPT ![r] =
                     Append(@, Call("add", NewId(r), loc[r].formattedPrice, TRUE))]
        /\ UNCHANGED nFail
        /\ cart' = StoreAdd(cart, NewId(r), insuranceProductId, 1, loc[r].formattedPrice)
        /\ Finish(r, 200, AddSuccess(r),
                  StoreAdd(cart, NewId(r), insuranceProductId, 1, loc[r].formattedPrice))
     \/ \E kind \in FailKinds :
          /\ ext' = [ext EXCEPT ![r] =
                       Append(@, Call("add", 0, loc[r].formattedPrice, FALSE))]
          /\ Fault(StoreHasCart(body[r].cartId))
          /\ UNCHANGED cart
          /\ IF \A i \in DOMAIN ext[r] : ext[r][i].call # "add"
             THEN UNCHANGED <<pc, resp, hist, lastDone>>
             ELSE Finish(r, 500, ErrorBody(AddErrorMessage(AddCartItemError(kind))), cart)

\* addCartItem answers (or throws into the outer catch)
AddAdd(r) ==
  /\ pc[r] = "add" /\ op[r] = "add"
  /\ UNCHANGED <<op, body, loc, nCalls>>
  /\ \/ /\ StoreHasCart(body[r].cartId)
        /\ ext' = [ext EXCEPT ![r] =
                     Append(@, Call("add", NewId(r), loc[r].formattedPrice, TRUE))]
        /\ UNCHANGED nFail
        /\ cart' = StoreAdd(cart, NewId(r), insuranceProductId, 1, loc[r].formattedPrice)
        /\ Finish(r, 200, AddSuccess(r),
                  StoreAdd(cart, NewId(r), insuranceProductId, 1, loc[r].formattedPrice))
     \/ \E kind \in FailKinds :
          /\ ext' = [ext EXCEPT ![r] =
                       Append(@, Call("add", 0, loc[r].formattedPrice, FALSE))]
          /\ Fault(StoreHasCart(body[r].cartId))
          /\ UNCHANGED cart
          /\ Finish(r, 500, ErrorBody(AddErrorMessage(AddCartItemError(kind))), cart)

\* -------------------------------------------- POST /api/insurance/update
UpdateSuccess(r) ==
  [success |-> 1, insuranceAmount |-> loc[r].formattedPrice,
   productId |-> insuranceProductId, action |-> "update",
   cartId |-> body[r].cartId]

\* the handler up to its first await
UpdateStart(r, b) ==
  LET hasTotal == b.cartTotal # Undef /\ b.cartTotal # Null
      hasData == b.cartData # Undef
      baseAmount == IF hasTotal THEN parseFloat(b.cartTotal)
                    ELSE getCartPrice(b.cartData)
      insuranceAmount == calculateInsuranceAmount(baseAmount)
  IN
  /\ CanStart(r)
  /\ nCalls' = nCalls + 1
  /\ op' = Cleared(op, r, "update", "none")
  /\ body' = Cleared(body, r, b, NoBody)
  /\ ext' = Cleared(ext, r, <<>>, <<>>)
  /\ hist' = StartHist(r)
  /\ UNCHANGED <<cart, nFail>>
  /\ IF ~Truthy(b.cartId)
     THEN Reject(r, 400, ErrorBody("Cart ID is required"))
     ELSE IF ~hasTotal /\ ~hasData
     THEN Reject(r, 400, ErrorBody("Cart total or cart data is required"))
     ELSE \E formattedPrice \in FormattedPrices(insuranceAmount) :
            /\ pc' = Cleared(pc, r, "fetch", "idle")
            /\ loc' = Cleared(loc, r,
                 [protectionValue |-> NaNV, baseAmount |-> baseAmount,
                  formattedPrice |-> formattedPrice, existing |-> 0], NoLoc)
            /\ resp' = Cleared(resp, r, NoResp, NoResp)
            /\ UNCHANGED lastDone

\* error.message || 'Failed to update insurance in cart' of the inner catch
UpdateErrorMessage(message) == OrStr(message, "Failed to update insurance in cart")

\* UpdateFetch with the add issued also when the cart holds no insurance item
UpdateFetchAlways(r) ==
  /\ pc[r] = "fetch" /\ op[r] = "update"
  /\ UNCHANGED <<cart, op, body, nCalls>>
  /\ IF body[r].cartId.t # "string"
     THEN /\ UNCHANGED <<ext, loc, nFail>>
          /\ Finish(r, 500, ErrorBody(UpdateErrorMessage("Invalid cart ID format")), cart)
     ELSE
       \/ /\ StoreHasCart(body[r].cartId)
          /\ ext' = [ext EXCEPT ![r] = Append(@, Call("getCart", 0, Undef, TRUE))]
          /\ UNCHANGED nFail
          /\ LET existingInsurance == findInsuranceProduct(CartResponse(cart))
             IN IF existingInsurance # Undef
                THEN /\ pc' = [pc EXCEPT ![r] = "remove"]
                     /\ loc' = [loc EXCEPT ![r].existing = existingInsurance.id]
                     /\ UNCHANGED <<resp, hist, lastDone>>
                ELSE /\ pc' = [pc EXCEPT ![r] = "add"]
                     /\ UNCHANGED <<loc, resp, hist, lastDone>>
       \/ \E kind \in FailKinds :
            /\ ext' = [ext EXCEPT ![r] = Append(@, Call("getCart", 0, Undef, FALSE))]
            /\ Fault(StoreHasCart(body[r].cartId))
            /\ UNCHANGED loc
            /\ Finish(r, 500, ErrorBody(UpdateErrorMessage(GetCartError(kind))), cart)

\* getCart answers (or throws into the inner catch), then findInsuranceProduct
UpdateFetch(r) ==
  /\ pc[r] = "fetch" /\ op[r] = "update"
  /\ UNCHANGED <<cart, op, body, nCalls>>
  /\ IF body[r].cartId.t # "string"
     THEN /\ UNCHANGED <<ext, loc, nFail>>
          /\ Finish(r, 500, ErrorBody(UpdateErrorMessage("Invalid cart ID format")), cart)
     ELSE
       \/ /\ StoreHasCart(body[r].cartId)
          /\ ext' = [ext EXCEPT ![r] = Append(@, Call("getCart", 0, Undef, TRUE))]
          /\ UNCHANGED nFail
          /\ LET existingInsurance == findInsuranceProduct(CartResponse(cart))
             IN IF existingInsurance # Undef
                THEN /\ pc' = [pc EXCEPT ![r] = "remove"]
                     /\ loc' = [loc EXCEPT ![r].existing = existingInsurance.id]
                     /\ UNCHANGED <<resp, hist, lastDone>>
                ELSE /\ UNCHANGED loc
                     /\ Finish(r, 200, UpdateSuccess(r), cart)
       \/ \E kind \in FailKinds :
            /\ ext' = [ext EXCEPT ![r] = Append(@, Call("getCart", 0, Undef, FALSE))]
            /\ Fault(StoreHasCart(body[r].cartId))
            /\ UNCHANGED loc
            /\ Finish(r, 500, ErrorBody(UpdateErrorMessage(GetCartError(kind))), cart)

\* removeCartItem answers (or throws into the inner catch)
UpdateRemove(r) ==
  /\ pc[r] = "remove" /\ op[r] = "update"
  /\ UNCHANGED <<op, body, loc, nCalls>>
  /\ \/ /\ StoreHasCart(body[r].cartId)
        /\ HasItem(cart, loc[r].existing)
        /\ ext' = [ext EXCEPT ![r] =
                     Append(@, Call("remove", loc[r].existing, Undef, TRUE))]
        /\ UNCHANGED nFail
        /\ cart' = StoreRemove(cart, loc[r].existing)
        /\ pc' = [pc EXCEPT ![r] = "add"]
        /\ UNCHANGED <<resp, hist, lastDone>>
     \/ \E kind \in FailKinds :
          /\ ext' = [ext EXCEPT ![r] =
                       Append(@, Call("remove", loc[r].existing, Undef, FALSE))]
          /\ Fault(StoreHasCart(body[r].cartId) /\ HasItem(cart, loc[r].existing))
          /\ UNCHANGED cart
          /\ Finish(r, 500, ErrorBody(UpdateErrorMessage(RemoveCartItemError(kind))), cart)

\* UpdateAdd with the cart put back as it was when the add fails
UpdateAddRestore(r) ==
  /\ pc[r] = "add" /\ op[r] = "update"
  /\ UNCHANGED <<op, body, loc, nCalls>>
  /\ \/ /\ StoreHasCart(body[r].cartId)
        /\ ext' = [ext EXCEPT ![r] =
                     Append(@, Call("add", NewId(r), loc[r].formattedPrice, TRUE))]
        /\ UNCHANGED nFail
        /\ cart' = StoreAdd(cart, NewId(r), insuranceProductId, 1, loc[r].formattedPrice)
        /\ Finish(r, 200, UpdateSuccess(r),
                  StoreAdd(cart, NewId(r), insuranceProductId, 1, loc[r].formattedPrice))
     \/ \E kind \in FailKinds :
          /\ ext' = [ext EXCEPT ![r] =
                       Append(@, Call("add", 0, loc[r].formattedPrice, FALSE))]
          /\ Fault(StoreHasCart(body[r].cartId))
          /\ cart' = hist[r].cart0
          /\ Finish(r, 500, ErrorBody(UpdateErrorMessage(AddCartItemError(kind))),
                    hist[r].cart0)

\* addCartItem answers (or throws into the inner catch)
UpdateAdd(r) ==
  /\ pc[r] = "add" /\ op[r] = "update"
  /\ UNCHANGED <<op, body, loc, nCalls>>
  /\ \/ /\ StoreHasCart(body[r].cartId)
        /\ ext' = [ext EXCEPT ![r] =
                     Append(@, Call("add", NewId(r), loc[r].formattedPrice, TRUE))]
        /\ UNCHANGED nFail
        /\ cart' = StoreAdd(cart, NewId(r), insuranceProductId, 1, loc[r].formattedPrice)
        /\ Finish(r, 200, UpdateSuccess(r),
                  StoreAdd(cart, NewId(r), insuranceProductId, 1, loc[r].formattedPrice))
     \/ \E kind \in FailKinds :
          /\ ext' = [ext EXCEPT ![r] =
                       Append(@, Call("add", 0, loc[r].formattedPrice, FALSE))]
          /\ Fault(StoreHasCart(body[r].cartId))
          /\ UNCHANGED cart
          /\ Finish(r, 500, ErrorBody(UpdateErrorMessage(AddCartItemError(kind))), cart)

\* ------------------------------------------- GET /api/insurance/calculate
\* Calculate with the percentage of the upper tier reported from the
\* threshold on
CalculateRateGE(r, q) ==
  LET cartTotal == parseFloat(q.cartTotal)
      insuranceAmount == calculateInsuranceAmount(cartTotal)
  IN
  /\ CanStart(r)
  /\ nCalls' = nCalls + 1
  /\ op' = Cleared(op, r, "calculate", "none")
  /\ body' = Cleared(body, r, q, NoBody)
  /\ ext' = Cleared(ext, r, <<>>, <<>>)
  /\ hist' = StartHist(r)
  /\ pc' = Cleared(pc, r, "done", "idle")
  /\ UNCHANGED <<cart, nFail>>
  /\ IF IsNaN(cartTotal) \/ cartTotal.n < 0
     THEN /\ resp' = Cleared(resp, r,
                 [status |-> 400, body |-> [error |-> "Valid cartTotal is required"]],
                 NoResp)
          /\ loc' = Cleared(loc, r, [NoLoc EXCEPT !.baseAmount = cartTotal], NoLoc)
          /\ lastDone' = Summary(nCalls + 1, "calculate",
                                 [NoLoc EXCEPT !.baseAmount = cartTotal],
                                 FALSE, StartHist(r)[r].overlap = {})
     ELSE \E formattedAmount \in FormattedPrices(insuranceAmount) :
            LET l == [NoLoc EXCEPT !.baseAmount = cartTotal,
                                   !.formattedPrice = formattedAmount]
            IN /\ resp' = Cleared(resp, r,
                    [status |-> 200,
                     body |-> [cartTotal |-> cartTotal,
                               insuranceAmount |-> formattedAmount,
                               percentage |-> IF cartTotal.n >= Threshold
                                              THEN percentageOver200
                                              ELSE percentageUnder200]],
                    NoResp)
               /\ loc' = Cleared(loc, r, l, NoLoc)
               /\ lastDone' = Summary(nCalls + 1, "calculate", l, TRUE,
                                      StartHist(r)[r].overlap = {})

\* the whole handler: it awaits nothing. q is req.query.
Calculate(r, q) ==
  LET cartTotal == parseFloat(q.cartTotal)
      insuranceAmount == calculateInsuranceAmount(cartTotal)
  IN
  /\ CanStart(r)
  /\ nCalls' = nCalls + 1
  /\ op' = Cleared(op, r, "calculate", "none")
  /\ body' = Cleared(body, r, q, NoBody)
  /\ ext' = Cleared(ext, r, <<>>, <<>>)
  /\ hist' = StartHist(r)
  /\ pc' = Cleared(pc, r, "done", "idle")
  /\ UNCHANGED <<cart, nFail>>
  /\ IF IsNaN(cartTotal) \/ cartTotal.n < 0
     THEN /\ resp' = Cleared(resp, r,
                 [status |-> 400, body |-> [error |-> "Valid cartTotal is required"]],
                 NoResp)
          /\ loc' = Cleared(loc, r, [NoLoc EXCEPT !.baseAmount = cartTotal], NoLoc)
          /\ lastDone' = Summary(nCalls + 1, "calculate",
                                 [NoLoc EXCEPT !.baseAmount = cartTotal],
                                 FALSE, StartHist(r)[r].overlap = {})
     ELSE \E formattedAmount \in FormattedPrices(insuranceAmount) :
            LET l == [NoLoc EXCEPT !.baseAmount = cartTotal,
                                   !.formattedPrice = formattedAmount]
            IN /\ resp' = Cleared(resp, r,
                    [status |-> 200,
                     body |-> [cartTotal |-> cartTotal,
                               insuranceAmount |-> formattedAmount,
                               percentage |-> IF cartTotal.n > Threshold
                                              THEN percentageOver200
                                              ELSE percentageUnder200]],
                    NoResp)
               /\ loc' = Cleared(loc, r, l, NoLoc)
               /\ lastDone' = Summary(nCalls + 1, "calculate", l, TRUE,
                                      StartHist(r)[r].overlap = {})

\* -------------------------------------------------- GET /api/cart/:cartId
\* the handler up to its await; cartId is req.params.cartId, a string
CartGetStart(r, cartId) ==
  /\ CanStart(r)
  /\ nCalls' = nCalls + 1
  /\ op' = Cleared(op, r, "cart", "none")
  /\ body' = Cleared(body, r, [NoBody EXCEPT !.cartId = cartId], NoBody)
  /\ ext' = Cleared(ext, r, <<>>, <<>>)
  /\ hist' = StartHist(r)
  /\ pc' = Cleared(pc, r, "fetch", "idle")
  /\ loc' = Cleared(loc, r, NoLoc, NoLoc)
  /\ resp' = Cleared(resp, r, NoResp, NoResp)
  /\ UNCHANGED <<cart, nFail, lastDone>>

\* getCart answers and the handler passes the answer on, or throws
CartGetFetch(r) ==
  /\ pc[r] = "fetch" /\ op[r] = "cart"
  /\ UNCHANGED <<cart, op, body, loc, nCalls>>
  /\ \/ /\ StoreHasCart(body[r].cartId)
        /\ ext' = [ext EXCEPT ![r] = Append(@, Call("getCart", 0, Undef, TRUE))]
        /\ UNCHANGED nFail
        /\ Finish(r, 200, CartResponse(cart), cart)
     \/ \E kind \in FailKinds :
          /\ ext' = [ext EXCEPT ![r] = Append(@, Call("getCart", 0, Undef, FALSE))]
          /\ Fault(StoreHasCart(body[r].cartId))
          /\ Finish(r, 500,
                    [error |-> OrStr(GetCartError(kind), "Internal server error")],
                    cart)

\* ------------------------------------------------- any other route (404)
NotFound(r) ==
  /\ CanStart(r)
  /\ nCalls' = nCalls + 1
  /\ op' = Cleared(op, r, "unknown", "none")
  /\ body' = Cleared(body, r, NoBody, NoBody)
  /\ ext' = Cleared(ext, r, <<>>, <<>>)
  /\ hist' = StartHist(r)
  /\ UNCHANGED <<cart, nFail>>
  /\ Reject(r, 404, ErrorBody("Route not found"))

\* ------------------------------------------------------ request bodies
\* decimal digits of a natural number
RECURSIVE NatChars(_)
NatChars(n) ==
  LET d == CHOOSE c \in Digits : DigitVal[c] = n % 10
  IN IF n < 10 THEN <<d>> ELSE Append(NatChars(n \div 10), d)

\* "d.cc" for a count of hundredths
CentsChars(c) ==
  NatChars(c \div 100) \o <<".">> \o NatChars((c % 100) \div 10) \o NatChars(c % 10)

\* the request bodies of the behaviours of several requests
Bodies ==
  { [cartId |-> CartC1, protection |-> pt[1], cartTotal |-> pt[2], cartData |-> Undef] :
      pt \in { <<NumV(100), NumV(15000)>>, <<NumV(100), NumV(30000)>>,
               <<NumV(0), NumV(30000)>> } }

\* cart data as the storefront script can send it: the data envelope with
\* snake_case items (one of them the insurance product), line_items at the
\* top with camelCase items, the camelCase container, and
FrontCarts ==
  { [data |-> [line_items |-> [physical_items |->
       <<Item(1, 111, NumV(15000)), Insurance(2, 300)>>, digital_items |-> <<>>]]],
    [line_items |-> [physical_items |->
       <<[id |-> 1, productId |-> NumV(11100), listPrice |-> NumV(12500),
          quantity |-> NumV(200)]>>]],
    [lineItems |-> [physicalItems |->
       <<[id |-> 1, productId |-> NumV(11100), listPrice |-> NumV(15000),
          quantity |-> NumV(100)]>>]],
    \* the insurance product among the digital items
    [data |-> [line_items |-> [physical_items |-> <<Item(1, 111, NumV(15000))>>,
                               digital_items |-> <<Insurance(2, 300)>>]]],
    \* no insurance product
    [line_items |-> [physical_items |-> <<Item(1, 111, NumV(15000))>>,
                     digital_items |-> <<>>]],
    \* camelCase items, one of them the insurance product
    [line_items |-> [physical_items |->
       <<[id |-> 1, productId |-> NumV(11100), listPrice |-> NumV(15000),
          quantity |-> NumV(100)],
         [id |-> 2, productId |-> NumV(insuranceProductId * 100),
          listPrice |-> NumV(300), quantity |-> NumV(100)]>>]],
    \* an item with both price keys, the snake_case one being 0
    [line_items |-> [physical_items |->
       <<[id |-> 1, product_id |-> NumV(11100), list_price |-> NumV(0),
          listPrice |-> NumV(500), quantity |-> NumV(100)]>>]],
    \* an item with no price, an item with no quantity
    [line_items |-> [physical_items |->
       <<[id |-> 1, product_id |-> NumV(11100), quantity |-> NumV(100)],
         [id |-> 2, product_id |-> NumV(22200), list_price |-> NumV(700)]>>]] }

\* the values the fields of a request are explored over
WideCartIds == {Undef, Null, Str(<<>>), NumV(0), NumV(12300), CartC1, CartZZ}
WideProtections ==
  { NumV(0), NumV(100), NumV(200), NumV(150), NumV(-100), Undef, Null,
    Str(<<"0">>), Str(<<"1">>), Str(<<"2">>), Str(<<"1", "a">>), Str(<<"a">>),
    Str(<<" ", "1">>), Str(<<"-", "1">>), Str(<<"1", ".", "9">>), Str(<<>>) }
WideTotals ==
  { NumV(0), NumV(15000), NumV(20000), NumV(30000), NumV(-10000), NumV(-1),
    Str(<<"1", "5", "0">>), Str(<<"a", "b", "c">>), Str(<<"-", "2", "0">>),
    Str(<<>>) }
TotalAndData ==
  {[cartTotal |-> t, cartData |-> Undef] : t \in WideTotals}
  \cup {[cartTotal |-> t, cartData |-> d] :
          t \in {Undef, Null}, d \in {Undef} \cup FrontCarts}

WideBodies ==
  { [cartId |-> c, protection |-> p, cartTotal |-> td.cartTotal,
     cartData |-> td.cartData] :
      c \in WideCartIds, p \in WideProtections, td \in TotalAndData }

WideUpdateBodies ==
  { [cartId |-> c, protection |-> Undef, cartTotal |-> td.cartTotal,
     cartData |-> td.cartData] : c \in WideCartIds, td \in TotalAndData }

\* req.query.cartTotal of /calculate: every whole-dollar amount up to
\* MaxDollars, amounts with cents around the threshold and at the ties of
\* the rounding, and texts that are not amounts
QueryTotals ==
  {Str(NatChars(d)) : d \in 0..MaxDollars}
  \cup {Str(CentsChars(c)) : c \in {25, 75, 19999, 20001, 20100}}
  \cup {Undef, Str(<<>>), Str(<<"a", "b", "c">>), Str(<<"-", "5">>),
        Str(<<"1", "5", "0", "a">>)}

Queries == {[NoBody EXCEPT !.cartTotal = t] : t \in QueryTotals}

\* ------------------------------------------------------- specifications
\* the behaviours of insurance being switched on and off: MaxCalls requests
\* to /add on cart "c1", up to NumSlots of them at the same time
AddRequest == \E r \in Slots : CanStart(r) /\ \E b \in Bodies : AddStart(r, b)

Next ==
  \/ AddRequest
  \/ \E r \in Slots : AddFetch(r)
  \/ \E r \in Slots : AddRemove(r)
  \/ \E r \in Slots : AddAdd(r)

Spec == Init /\ [][Next]_vars

\* the behaviours of the last request of a run, to any endpoint, its fields
\* ranging over every kind of value; the requests before it have left one of the carts
\* of Init
InitInput ==
  /\ cart \in {[physical_items |-> PhysicalGoods, digital_items |-> d] :
               d \in InitDigital}
  /\ pc = [r \in Slots |-> "idle"]
  /\ op = [r \in Slots |-> "none"]
  /\ body = [r \in Slots |-> NoBody]
  /\ loc = [r \in Slots |-> NoLoc]
  /\ ext = [r \in Slots |-> <<>>]
  /\ resp = [r \in Slots |-> NoResp]
  /\ hist = [r \in Slots |-> NoHist]
  /\ nCalls = MaxCalls - 1
  /\ nFail = 0
  /\ lastDone = NoSummary

AddRequestInput ==
  \E r \in Slots : CanStart(r) /\ \E b \in WideBodies : AddStart(r, b)
UpdateRequestInput ==
  \E r \in Slots : CanStart(r) /\ \E b \in WideUpdateBodies : UpdateStart(r, b)
CalculateRequest ==
  \E r \in Slots : CanStart(r) /\ \E q \in Queries : Calculate(r, q)
CartGetRequest ==
  \E r \in Slots : CanStart(r) /\ \E c \in {CartC1, CartZZ} : CartGetStart(r, c)

NextInput ==
  \/ AddRequestInput
  \/ \E r \in Slots : AddFetch(r)
  \/ \E r \in Slots : AddRemove(r)
  \/ \E r \in Slots : AddAdd(r)
  \/ UpdateRequestInput
  \/ \E r \in Slots : UpdateFetch(r)
  \/ \E r \in Slots : UpdateRemove(r)
  \/ \E r \in Slots : UpdateAdd(r)
  \/ CalculateRequest
  \/ CartGetRequest
  \/ \E r \in Slots : CartGetFetch(r)
  \/ \E r \in Slots : NotFound(r)

SpecInput == InitInput /\ [][NextInput]_vars

\* ------------------------------------------------------------ vocabulary
Done(r) == pc[r] = "done"
IsSetInsurance(r) == op[r] = "add"
Enabled(r) == loc[r].protectionValue = NumV(100)
Disabled(r) == loc[r].protectionValue = NumV(0)
\* the response reports success
Success(r) == resp[r].status = 200 /\ Has(resp[r].body, "success")
              /\ resp[r].body.success = 1
\* the calls of request r to the store with that name
CallsOf(r, name) == {i \in DOMAIN ext[r] : ext[r][i].call = name}
FailedCalls(r, name) == {i \in CallsOf(r, name) : ~ext[r][i].ok}
Solo(r) == hist[r].overlap = {}

\* ------------------------------------------------------------- claims
\* C1: after any SetInsurance call that reports success the cart holds at
\* most one insurance item, whatever the cart was before the call.
C1_AtMostOneAfterSuccess ==
  \A r \in Slots :
    (Done(r) /\ IsSetInsurance(r) /\ Success(r))
      => Len(hist[r].after) <= 1

\* C2: SetInsurance(enabled, 150) followed by SetInsurance(enabled, 300) on
\* the same cart, one after the other, leaves exactly one insurance item,
\* priced at the amount for 300 (4.50).
SecondOfEnablePair(r) ==
  /\ Done(r) /\ IsSetInsurance(r) /\ Enabled(r) /\ Success(r) /\ Solo(r)
  /\ loc[r].baseAmount = NumV(30000)
  /\ hist[r].prev = [seq |-> hist[r].seq - 1, op |-> "add",
                     protectionValue |-> NumV(100), baseAmount |-> NumV(15000),
                     success |-> TRUE]

C2_EnableTwiceConverges ==
  \A r \in Slots :
    SecondOfEnablePair(r)
      => /\ Len(hist[r].after) = 1
         /\ hist[r].after = <<NumV(450)>>

\* C3: two concurrent SetInsurance(enabled) requests on a cart with no
\* insurance item, that both fetched it, both found no item to remove and
\* both added with success, leave two insurance items in the cart.
RacedPair(r, q) ==
  /\ r # q
  /\ \A x \in {r, q} :
       /\ Done(x) /\ IsSetInsurance(x) /\ Enabled(x) /\ Success(x)
       /\ Len(hist[x].before) = 0
       /\ CallsOf(x, "remove") = {}
       /\ FailedCalls(x, "getCart") = {}
  /\ hist[r].overlap = {hist[q].seq}
  /\ hist[q].overlap = {hist[r].seq}

C3_RaceDuplicates ==
  \A r, q \in Slots :
    RacedPair(r, q)
      => \/ Len(hist[r].after) = 2
         \/ Len(hist[q].after) = 2

C3_Witness ==
  \E r, q \in Slots : RacedPair(r, q) /\ InsuranceCount(cart) = 2

\* C4: in SetInsurance(enabled), when the remove of the existing item fails
\* the add is still issued, and the call reports success if the add succeeds.
C4_RemoveFailureStillAdds ==
  \A r \in Slots :
    (IsSetInsurance(r) /\ Enabled(r) /\ FailedCalls(r, "remove") # {})
      => \/ pc[r] = "add"
         \/ /\ Done(r)
            /\ Cardinality(CallsOf(r, "add")) = 1
            /\ \A i \in CallsOf(r, "add") : ext[r][i].ok => Success(r)

C4_Witness ==
  \E r \in Slots :
    /\ IsSetInsurance(r) /\ Enabled(r) /\ FailedCalls(r, "remove") # {}
    /\ Done(r) /\ Success(r)
    /\ \E i \in CallsOf(r, "add") : ext[r][i].ok

\* C5: in SetInsurance(enabled), a failure of the add is surfaced: the
\* response is not a success, it carries success 0 and an error message.
C5_AddFailureSurfaced ==
  \A r \in Slots :
    (IsSetInsurance(r) /\ FailedCalls(r, "add") # {})
      => /\ Done(r)
         /\ ~Success(r)
         /\ resp[r].status = 500
         /\ resp[r].body.success = 0
         /\ resp[r].body.error # ""

C5_Witness ==
  \E r \in Slots :
    /\ IsSetInsurance(r) /\ Enabled(r) /\ FailedCalls(r, "add") # {}
    /\ Done(r) /\ resp[r].body.success = 0

\* C6: a SetInsurance request whose cartId is empty or missing, or whose
\* protection is neither of the two recognized values (0 and 1), is rejected
\* as a caller error before any call to the store.
Recognized(p) == p \in {NumV(0), NumV(100), Str(<<"0">>), Str(<<"1">>)}

C6_InvalidRejectedBeforeStore ==
  \A r \in Slots :
    (IsSetInsurance(r)
       /\ (~Truthy(body[r].cartId) \/ ~Recognized(body[r].protection)))
      => /\ ext[r] = <<>>
         /\ Done(r) => resp[r].status = 400 /\ resp[r].body.success = 0

\* C7: wherever an amount is computed from a subtotal (/calculate, /add with
\* protection 1, /update), a negative or non-numeric subtotal is answered as
\* a caller error, and no call reaches the store for it, no add above all.
ComputesAmount(r) ==
  \/ op[r] = "calculate"
  \/ op[r] = "update"
  \/ op[r] = "add" /\ Enabled(r)

InvalidSubtotal(r) == IsNaN(loc[r].baseAmount) \/ loc[r].baseAmount.n < 0

C7_InvalidSubtotalRejected ==
  \A r \in Slots :
    (ComputesAmount(r) /\ InvalidSubtotal(r))
      => /\ CallsOf(r, "add") = {}
         /\ Done(r) => resp[r].status = 400

\* C8: for a non-negative subtotal s the amount is s * 1.5 / 100 when
\* s > 200 and s * 2 / 100 otherwise, s = 200 included, as the nearest
\* hundredth; 200 gives 4.00.
TierAmount(s, a) ==
  LET rate == IF s > 20000 THEN 15 ELSE 20
  IN /\ 2 * (1000 * a - s * rate) <= 1000
     /\ 2 * (s * rate - 1000 * a) <= 1000
     /\ s = 20000 => a = 400

PricedRequest(r) ==
  /\ pc[r] # "idle"
  /\ ComputesAmount(r)
  /\ ~InvalidSubtotal(r)

C8_TierInclusiveBelow ==
  \A r \in Slots :
    PricedRequest(r)
      => /\ IsNum(loc[r].formattedPrice)
         /\ TierAmount(loc[r].baseAmount.n, loc[r].formattedPrice.n)
         /\ op[r] = "calculate"
              => resp[r].body.insuranceAmount = loc[r].formattedPrice

C8_Witness ==
  \E r \in Slots :
    /\ op[r] = "calculate" /\ Done(r)
    /\ loc[r].baseAmount = NumV(20000)
    /\ resp[r].body.insuranceAmount = NumV(400)

\* C9: SetInsurance(disabled) twice in a row: the cart holds no insurance
\* item after each call, both report success, and the second call issues no
\* remove and no add.
SecondOfDisablePair(r) ==
  /\ Done(r) /\ IsSetInsurance(r) /\ Disabled(r) /\ Solo(r)
  /\ hist[r].prev.seq = hist[r].seq - 1
  /\ hist[r].prev.op = "add"
  /\ hist[r].prev.protectionValue = NumV(0)
  /\ hist[r].prev.success

C9_DisableTwice ==
  \A r \in Slots :
    SecondOfDisablePair(r)
      => /\ Success(r)
         /\ Len(hist[r].before) = 0
         /\ Len(hist[r].after) = 0
         /\ CallsOf(r, "remove") = {}
         /\ CallsOf(r, "add") = {}

\* C10: whenever SetInsurance(disabled) on a cart that holds an insurance
\* item reports success, the cart holds no insurance item afterwards, also
\* when the fetch or the remove fails.
C10_DisableLeavesAbsent ==
  \A r \in Slots :
    (Done(r) /\ IsSetInsurance(r) /\ Disabled(r) /\ Success(r) /\ Solo(r)
       /\ Len(hist[r].before) >= 1)
      => Len(hist[r].after) = 0

\* C11: the action of a successful SetInsurance response is "update" exactly
\* when a remove and an add both occurred in the call, "add" when only an
\* add occurred, and "remove" for a disable.
Occurred(r, name) == \E i \in CallsOf(r, name) : ext[r][i].ok

C11_ActionReported ==
  \A r \in Slots :
    (Done(r) /\ IsSetInsurance(r) /\ Success(r))
      => /\ resp[r].body.action = "update"
              <=> (Occurred(r, "remove") /\ Occurred(r, "add"))
         /\ (Occurred(r, "add") /\ ~Occurred(r, "remove"))
              => resp[r].body.action = "add"
         /\ Disabled(r) => resp[r].body.action = "remove"

\* C12: RecalculateInsurance (/update) whose fetch is answered: on a cart
\* with no insurance item it issues no remove and no add, leaves the cart as
\* it was and reports success; on a cart with an insurance item, when it
\* reports success, the item it found is gone and a new insurance item, of
\* quantity 1 and priced at the amount for the subtotal, has taken its place.
IsRecalculate(r) == op[r] = "update"

Replaced(before, now, old, subtotal) ==
  LET n == Len(now.digital_items)
      new == now.digital_items[n]
  IN /\ ~HasItem(now, old.id)
     /\ now.physical_items = before.physical_items
     /\ n = Len(before.digital_items)
     /\ SubSeq(now.digital_items, 1, n - 1) = WithoutItem(before.digital_items, old.id)
     /\ IsInsurance(new) /\ ~HasItem(before, new.id)
     /\ new.quantity = NumV(100)
     /\ IsNum(new.list_price) /\ TierAmount(subtotal, new.list_price.n)

C12_RecalculateReplaces ==
  \A r \in Slots :
    (IsRecalculate(r) /\ Done(r) /\ Solo(r) /\ Occurred(r, "getCart"))
      => LET old == findInsuranceProduct(CartResponse(hist[r].cart0))
         IN IF old = Undef
            THEN /\ CallsOf(r, "remove") = {} /\ CallsOf(r, "add") = {}
                 /\ cart = hist[r].cart0
                 /\ Success(r)
            ELSE (Success(r) /\ ~InvalidSubtotal(r))
                   => Replaced(hist[r].cart0, cart, old, loc[r].baseAmount.n)

C12_Witness ==
  \E r \in Slots :
    /\ IsRecalculate(r) /\ Done(r) /\ Success(r)
    /\ Len(hist[r].before) = 2
    /\ loc[r].baseAmount = NumV(30000)
    /\ Occurred(r, "remove") /\ Occurred(r, "add")
    /\ hist[r].after = <<NumV(450), NumV(450)>>

\* C13: PreviewInsuranceAmount (/calculate) answers every valid subtotal, and
\* the rate it returns is the rate of the tier the amount was computed with:
\* the lower-tier rate when subtotal <= threshold, the upper-tier rate
\* otherwise; 150 gives 3.00 at rate 2, 250 gives 3.75 at rate 1.5.
IsPreview(r) == op[r] = "calculate"

C13_RateOfTierUsed ==
  \A r \in Slots :
    (IsPreview(r) /\ Done(r) /\ ~InvalidSubtotal(r))
      => /\ resp[r].status = 200
         /\ LET s == resp[r].body.cartTotal.n
                a == resp[r].body.insuranceAmount.n
                p == resp[r].body.percentage
            IN /\ p = IF s <= Threshold THEN percentageUnder200
                      ELSE percentageOver200
               /\ 2 * (1000 * a - s * p) <= 1000
               /\ 2 * (s * p - 1000 * a) <= 1000
               /\ s = 15000 => a = 300 /\ p = 20
               /\ s = 25000 => a = 375 /\ p = 15

C13_Witness ==
  \E r \in Slots :
    /\ IsPreview(r) /\ Done(r)
    /\ resp[r].status = 200
    /\ resp[r].body.cartTotal = NumV(25000)
    /\ resp[r].body.insuranceAmount = NumV(375)
    /\ resp[r].body.percentage = percentageOver200

\* C14: every error response of every endpoint (/add, /update, /calculate,
\* the cart, an unknown route) has the same shape: success equal to 0
\* together with an error message.
IsError(r) == Done(r) /\ resp[r].status >= 400

C14_ErrorShape ==
  \A r \in Slots :
    IsError(r)
      => /\ Has(resp[r].body, "success") /\ resp[r].body.success = 0
         /\ Has(resp[r].body, "error") /\ resp[r].body.error # ""

\* C15: when the cart holds more than one insurance item, the next
\* reconciliation of it (SetInsurance enabled or disabled, or
\* RecalculateInsurance) that reports success leaves at most one.
IsReconciliation(r) == op[r] \in {"add", "update"}

C15_DuplicatesCollapsed ==
  \A r \in Slots :
    (IsReconciliation(r) /\ Done(r) /\ Solo(r) /\ Success(r)
       /\ Len(hist[r].before) > 1)
      => Len(hist[r].after) <= 1

\* C16: in no reconciliation, SetInsurance or RecalculateInsurance, does a
\* failure of the remove of the existing item make the call answer an error:
\* unless the add fails, the call whose remove failed reports success.
C16_RemoveFailureSwallowed ==
  \A r \in Slots :
    (IsReconciliation(r) /\ Done(r)
       /\ FailedCalls(r, "remove") # {} /\ FailedCalls(r, "add") = {})
      => Success(r)

\* C17: in SetInsurance(enabled), when the fetch of the cart fails the call
\* goes on as for a cart with no insurance item: it issues no remove and
\* exactly one add, at the amount for the subtotal, and reports success when
\* that add succeeds.
C17_FetchFailureStillAdds ==
  \A r \in Slots :
    (IsSetInsurance(r) /\ Enabled(r) /\ FailedCalls(r, "getCart") # {})
      => /\ CallsOf(r, "remove") = {}
         /\ \/ pc[r] = "add" /\ CallsOf(r, "add") = {}
            \/ /\ Done(r)
               /\ Cardinality(CallsOf(r, "add")) = 1
               /\ \A i \in CallsOf(r, "add") :
                    /\ ~InvalidSubtotal(r)
                         => /\ IsNum(ext[r][i].price)
                            /\ TierAmount(loc[r].baseAmount.n, ext[r][i].price.n)
                    /\ ext[r][i].ok => Success(r)

C17_Witness ==
  \E r \in Slots :
    /\ IsSetInsurance(r) /\ Enabled(r) /\ Done(r) /\ Success(r)
    /\ FailedCalls(r, "getCart") # {}
    /\ Occurred(r, "add")
    /\ Len(hist[r].before) = 1
    /\ Solo(r) /\ InsuranceCount(cart) = 2

\* C18: no reconciliation, SetInsurance or RecalculateInsurance, issues more
\* than one add to the store, on the paths where the fetch, the remove or
\* the add itself fails as on the others: a failed add is not sent again.
C18_AtMostOneAdd ==
  \A r \in Slots :
    IsReconciliation(r) => Cardinality(CallsOf(r, "add")) <= 1

C18_Witness ==
  \E r \in Slots :
    /\ IsReconciliation(r) /\ Done(r)
    /\ FailedCalls(r, "getCart") # {}
    /\ Cardinality(FailedCalls(r, "add")) = 1
    /\ resp[r].status = 500

\* C19: SetInsurance(enabled) on a cart that holds exactly one insurance
\* item, the fetch being answered, issues exactly one remove, for the id of
\* that item, and exactly one add, the remove before the add; also when the
\* new amount is the price the item already has.
ReplacesTheOnlyItem(r) ==
  /\ IsSetInsurance(r) /\ Enabled(r) /\ Done(r) /\ Solo(r)
  /\ InsuranceCount(hist[r].cart0) = 1
  /\ Occurred(r, "getCart")

C19_RemoveThenAdd ==
  \A r \in Slots :
    ReplacesTheOnlyItem(r)
      => LET old == findInsuranceProduct(CartResponse(hist[r].cart0))
         IN /\ old # Undef
            /\ Cardinality(CallsOf(r, "remove")) = 1
            /\ Cardinality(CallsOf(r, "add")) = 1
            /\ \A i \in CallsOf(r, "remove") :
                 /\ ext[r][i].id = old.id
                 /\ \A j \in CallsOf(r, "add") : i < j

C19_Witness ==
  \E r \in Slots :
    /\ ReplacesTheOnlyItem(r)
    /\ hist[r].before = <<loc[r].formattedPrice>>
    /\ Occurred(r, "remove") /\ Occurred(r, "add")
    /\ hist[r].after = hist[r].before

\* C20: SetInsurance(enabled) on a cart with no insurance item issues no
\* remove and exactly one add: of the insurance product, quantity 1, at the
\* amount for the subtotal (3.00 for 150), which is the one item the cart
\* gains when the add succeeds.
EnablesFromNone(r) ==
  /\ IsSetInsurance(r) /\ Enabled(r) /\ Done(r) /\ Solo(r)
  /\ InsuranceCount(hist[r].cart0) = 0

C20_SingleAddFromNone ==
  \A r \in Slots :
    EnablesFromNone(r)
      => /\ CallsOf(r, "remove") = {}
         /\ Cardinality(CallsOf(r, "add")) = 1
         /\ \A i \in CallsOf(r, "add") :
              /\ ~InvalidSubtotal(r)
                   => /\ IsNum(ext[r][i].price)
                      /\ TierAmount(loc[r].baseAmount.n, ext[r][i].price.n)
              /\ loc[r].baseAmount = NumV(15000) => ext[r][i].price = NumV(300)
              /\ (ext[r][i].ok /\ IsNum(ext[r][i].price))
                   => cart = [hist[r].cart0 EXCEPT !.digital_items =
                                Append(@, [id |-> ext[r][i].id,
                                           product_id |-> NumV(6817 * 100),
                                           list_price |-> ext[r][i].price,
                                           quantity |-> NumV(100)])]

C20_Witness ==
  \E r \in Slots :
    /\ EnablesFromNone(r) /\ Success(r)
    /\ FailedCalls(r, "getCart") = {}
    /\ loc[r].baseAmount = NumV(15000)
    /\ Occurred(r, "add")
    /\ InsuranceLines(cart) = <<NumV(300)>>

\* C21: in every successful SetInsurance call the amount returned to the
\* caller is the unit price that was sent in the add call, the amount for
\* the subtotal rounded to hundredths, and a disable returns exactly 0.
C21_ReturnedAmountIsSentPrice ==
  \A r \in Slots :
    (IsSetInsurance(r) /\ Done(r) /\ Success(r))
      => /\ \A i \in CallsOf(r, "add") :
              ext[r][i].price = resp[r].body.insuranceAmount
         /\ (Enabled(r) /\ ~InvalidSubtotal(r))
              => /\ IsNum(resp[r].body.insuranceAmount)
                 /\ TierAmount(loc[r].baseAmount.n, resp[r].body.insuranceAmount.n)
         /\ Disabled(r) => resp[r].body.insuranceAmount = NumV(0)

C21_Witness ==
  \E r \in Slots :
    /\ IsSetInsurance(r) /\ Done(r) /\ Success(r) /\ Enabled(r)
    /\ body[r].cartTotal = Str(<<"1", "5", "0">>)
    /\ resp[r].body.insuranceAmount = NumV(300)
    /\ \E i \in CallsOf(r, "add") : ext[r][i].ok /\ ext[r][i].price = NumV(300)

\* C22: the subtotal derived from a cart never includes the price of an
\* insurance item: it is the subtotal of the same cart with every insurance
\* item, of the physical and of the digital collection, taken out.
DerivedFromCart(r) ==
  /\ op[r] \in {"add", "update"} /\ pc[r] # "idle"
  /\ body[r].cartTotal \in {Undef, Null}
  /\ body[r].cartData # Undef
  /\ ~(Done(r) /\ resp[r].status = 400)

IsInsuranceItem(item) ==
  \/ Get(item, "product_id") = NumV(6817 * 100)
  \/ Get(item, "productId") = NumV(6817 * 100)

StripLines(lineItems) ==
  [k \in DOMAIN lineItems |->
     SelectSeq(lineItems[k], LAMBDA item : ~IsInsuranceItem(item))]

StripInsurance(cartData) ==
  [k \in DOMAIN cartData |->
     IF k = "data"
     THEN [j \in DOMAIN cartData.data |-> StripLines(cartData.data[j])]
     ELSE StripLines(cartData[k])]

C22_SubtotalExcludesInsurance ==
  \A r \in Slots :
    DerivedFromCart(r)
      => loc[r].baseAmount = getCartPrice(StripInsurance(body[r].cartData))

C22_Witness ==
  \E r \in Slots :
    /\ DerivedFromCart(r)
    /\ \E i \in DOMAIN Collection(body[r].cartData, "physical_items") :
         IsInsuranceItem(Collection(body[r].cartData, "physical_items")[i])
    /\ loc[r].baseAmount = NumV(15000)

\* C23: a cart in the camelCase shape (lineItems, physicalItems,
\* digitalItems, productId, listPrice) is treated as the same cart in the
\* snake_case shape: the same subtotal is computed from both and the same
\* insurance item is found in both.
SnakeKey(k) ==
  CASE k = "lineItems" -> "line_items"
    [] k = "physicalItems" -> "physical_items"
    [] k = "digitalItems" -> "digital_items"
    [] k = "productId" -> "product_id"
    [] k = "listPrice" -> "list_price"
    [] OTHER -> k

\* the object with every camelCase key renamed (not where the snake_case
\* key is there as well)
Renamed(obj) ==
  LET NewKey(j) == IF SnakeKey(j) \in DOMAIN obj THEN j ELSE SnakeKey(j)
  IN [k \in {NewKey(j) : j \in DOMAIN obj} |->
        obj[CHOOSE j \in DOMAIN obj : NewKey(j) = k]]

SnakeLines(lineItems) ==
  LET x == Renamed(lineItems)
  IN [k \in DOMAIN x |-> [i \in DOMAIN x[k] |-> Renamed(x[k][i])]]

ToSnake(cartData) ==
  LET x == Renamed(cartData)
  IN [k \in DOMAIN x |->
        IF k = "data"
        THEN [j \in DOMAIN Renamed(x[k]) |-> SnakeLines(Renamed(x[k])[j])]
        ELSE SnakeLines(x[k])]

C23_ShapesTreatedAlike ==
  \A r \in Slots :
    DerivedFromCart(r)
      => /\ loc[r].baseAmount = getCartPrice(ToSnake(body[r].cartData))
         /\ LET found == findInsuranceProduct(body[r].cartData)
                twin == findInsuranceProduct(ToSnake(body[r].cartData))
            IN /\ found = Undef <=> twin = Undef
               /\ found # Undef => found.id = twin.id

\* C24: per item a field is the snake_case key's value whenever that key is
\* present, the camelCase key's value only when it is absent, and 0 for a
\* price or a quantity only when both are absent: an item with
\* list_price 0 contributes 0 to the subtotal whatever its listPrice is.
Resolved(item, snake, camel, default) ==
  IF Has(item, snake) THEN item[snake]
  ELSE IF Has(item, camel) THEN item[camel] ELSE default

ResolvedLine(item) ==
  IF Resolved(item, "product_id", "productId", Undef) = NumV(6817 * 100)
  THEN 0
  ELSE (Resolved(item, "list_price", "listPrice", NumV(0)).n
         * Resolved(item, "quantity", "quantity", NumV(0)).n) \div 100

RECURSIVE ResolvedSubtotal(_)
ResolvedSubtotal(items) ==
  IF items = <<>> THEN 0
  ELSE ResolvedLine(Head(items)) + ResolvedSubtotal(Tail(items))

C24_SnakeKeyPreferred ==
  \A r \in Slots :
    DerivedFromCart(r)
      => loc[r].baseAmount
           = NumV(ResolvedSubtotal(Collection(body[r].cartData, "physical_items")))

\* C25: no step removes or adds a line item of another product than the
\* insurance product: whatever is called and whatever fails, the physical
\* items and the digital items that are not insurance stay as they are.
OtherDigital(c) == SelectSeq(c.digital_items, LAMBDA it : ~IsInsuranceItem(it))

C25_OtherItemsUntouched ==
  [][/\ cart'.physical_items = cart.physical_items
     /\ OtherDigital(cart') = OtherDigital(cart)]_vars

C25_Witness ==
  \E r \in Slots :
    /\ Done(r) /\ Occurred(r, "remove") /\ Occurred(r, "add")
    /\ OtherDigital(hist[r].cart0) # <<>>
    /\ OtherDigital(cart) = OtherDigital(hist[r].cart0)
    /\ cart.physical_items = PhysicalGoods
    /\ cart # hist[r].cart0

\* C26: remove-then-add is not atomic: when a SetInsurance(enabled) or a
\* RecalculateInsurance call that runs alone has removed the insurance item
\* it found and its add then fails, the call reports failure and the removed
\* item is not put back: the cart is the starting cart without that item,
\* so without any insurance item when it held one.
RemovedThenAddFailed(r) ==
  /\ IsReconciliation(r) /\ Done(r) /\ Solo(r)
  /\ Occurred(r, "remove") /\ FailedCalls(r, "add") # {}

C26_RemovedItemNotRestored ==
  \A r \in Slots :
    RemovedThenAddFailed(r)
      => LET old == findInsuranceProduct(CartResponse(hist[r].cart0))
         IN /\ ~Success(r) /\ resp[r].status = 500
            /\ old # Undef
            /\ cart = StoreRemove(hist[r].cart0, old.id)
            /\ InsuranceCount(hist[r].cart0) = 1 => InsuranceCount(cart) = 0

C26_Witness ==
  \E r \in Slots :
    /\ RemovedThenAddFailed(r) /\ IsRecalculate(r)
    /\ InsuranceCount(hist[r].cart0) = 1
    /\ InsuranceCount(cart) = 0
    /\ resp[r].status = 500

\* C27: a SetInsurance(disabled) call sends no add to the store on any path,
\* so a disable that runs alone never ends with more insurance items in the
\* cart than it started with.
C27_DisableNeverAdds ==
  \A r \in Slots :
    (IsSetInsurance(r) /\ Disabled(r))
      => /\ CallsOf(r, "add") = {}
         /\ (Done(r) /\ Solo(r)) => Len(hist[r].after) <= Len(hist[r].before)

C27_Witness ==
  \E r \in Slots :
    /\ IsSetInsurance(r) /\ Disabled(r) /\ Done(r) /\ Solo(r) /\ Success(r)
    /\ Occurred(r, "remove")
    /\ Len(hist[r].after) < Len(hist[r].before)

====
